---- MODULE Spec2Model ----
(***************************************************************************)
(* lpck: one run of the CLI (src/index.ts).  Strings are sequences of      *)
(* one-character strings, so that getPackName's two replace() calls and    *)
(* endsWith(".tgz") are computed character by character.  A dependency map *)
(* is a function from names to values; a manifest field is a record        *)
(* [present, map] so that a missing field and an empty object differ.      *)
(* The runs checked are of three families (OriginRuns, TargetRuns,         *)
(* PresetRuns): each varies one part of the input and keeps the rest small.*)
(* A save() that rejects leaves the file as it was.  The commands help,    *)
(* init and printPresets touch no manifest and are not modelled.           *)
(* PackNameSpec applies getPackName, through load(), to arbitrary names    *)
(* and versions; SnapshotSpec is TargetPackage.install of the earlier      *)
(* build kept in src/unnamed/part_000; HandlerSpec is a WorkspaceHandler   *)
(* whose updateToLocalPacks, restore and pack are called in any order.     *)
(***************************************************************************)
EXTENDS Naturals, Sequences, FiniteSets, TLC

VARIABLES
    pc,           \* position of LPCK.run / #preset / #install
    args,         \* this.#args, as #loadArgs built it
    presetCmd,    \* what .lpckrc holds for the preset named (see PresetCmds)
    origin,       \* OriginWorkspace's #packagesInfos, in Map order
    originDisk,   \* the origin members' package.json files
    originRoot,   \* the package.json file of the origin's workspace root
    target,       \* TargetWorkspace's #packagesInfos, in Map order
    targetDisk,   \* the target's package.json files (members, then root)
    packDir,      \* LPCK_PACK_DIR: [exists, files]
    emitted,      \* archive names written by this run's npm pack
    tool,         \* the external processes spawned and not yet exited
    packExit,     \* the exit code of npm pack ({} before it exits)
    installExit,  \* the exit code of npm install ({} before it exits)
    spawned,      \* the spawn() calls made so far, in order
    reported,     \* what the catch block printed with console.error
    failure,      \* the step whose rejection left #install ("none" if none)
    steps,        \* the steps of the run begun so far, in order
    saves,        \* the packageJson.save() calls that wrote a file, in order
    before        \* the package.json files as they were when the run began

vars == <<pc, args, presetCmd, origin, originDisk, originRoot, target, targetDisk,
          packDir, emitted, tool, packExit, installExit, spawned, reported,
          failure, steps, saves, before>>

-----------------------------------------------------------------------------
(* Bounds of the model *)

\* most workspace members of the origin
MaxMembers == 2
\* most dependency keys in one manifest, over its three fields
MaxKeys == 1
\* longest name and longest version getPackName is applied to in PackNameSpec
MaxLen == 3

-----------------------------------------------------------------------------
(* Strings *)

Tgz == <<".", "t", "g", "z">>

RECURSIVE ReplaceAll(_, _, _)
\* String.prototype.replace with a /c/g pattern
ReplaceAll(s, c, r) ==
    IF s = <<>> THEN <<>>
    ELSE (IF Head(s) = c THEN r ELSE <<Head(s)>>) \o ReplaceAll(Tail(s), c, r)

\* String.prototype.endsWith
EndsWith(s, suffix) ==
    /\ Len(s) >= Len(suffix)
    /\ SubSeq(s, Len(s) - Len(suffix) + 1, Len(s)) = suffix

LPCK_PACK_DIR == <<"~", "/", "p">>

\* String.prototype.replace with a pattern that has no g flag
ReplaceFirst(s, c, r) ==
    IF \E i \in 1..Len(s) : s[i] = c
    THEN LET i == CHOOSE j \in 1..Len(s) : s[j] = c /\ \A k \in 1..(j - 1) : s[k] # c
         IN SubSeq(s, 1, i - 1) \o r \o SubSeq(s, i + 1, Len(s))
    ELSE s

\* getPackName with /@/ and /\// in place of /@/g and /\//g
getPackName_FirstOnly(packageJson) ==
    ReplaceFirst(
        ReplaceFirst(packageJson.name \o <<"-">> \o packageJson.version \o Tgz,
                     "@", <<>>),
        "/", <<"-">>)

\* getPackName: the template string, then .replace(/@/g, "") and .replace(/\//g, "-")
getPackName(packageJson) ==
    ReplaceAll(
        ReplaceAll(packageJson.name \o <<"-">> \o packageJson.version \o Tgz,
                   "@", <<>>),
        "/", <<"-">>)

\* path.join(LPCK_PACK_DIR, packName); packName holds no "/" after getPackName
getPackDir(packName) == LPCK_PACK_DIR \o <<"/">> \o packName

-----------------------------------------------------------------------------
(* Manifests *)

NameScoped == <<"@", "s", "/", "b">>
NameDashed == <<"s", "-", "b">>
NameTarget == <<"t">>
NameMember == <<"m">>
NameRoot == <<"r">>
Names == {NameScoped, NameDashed}
Range == <<"^", "1">>

\* the (name, version) pairs an origin member can have
Packages ==
    {<<NameScoped, <<"1">>>>, <<NameDashed, <<"1">>>>, <<NameDashed, <<"2">>>>}

DepTypes == {"dependencies", "devDependencies", "peerDependencies"}

Absent == [present |-> FALSE, map |-> <<>>]
Obj(m) == [present |-> TRUE, map |-> m]

\* deps ?? {}
OrEmpty(deps) == IF deps.present THEN deps.map ELSE <<>>

Keys(deps) == DOMAIN OrEmpty(deps)

KeyCount(m) ==
    Cardinality(Keys(m.dependencies)) + Cardinality(Keys(m.devDependencies))
        + Cardinality(Keys(m.peerDependencies))

\* the values a dependency field of a package.json can have before a run
FieldValues ==
    {Absent} \cup {Obj([k \in S |-> Range]) : S \in SUBSET Names}

\* the package.json contents a package (name, version) can have before a run:
\* at most MaxKeys keys, and its keyless fields all missing or all {}
Manifests(name, version) ==
    {m \in [name : {name}, version : {version}, dependencies : FieldValues,
            devDependencies : FieldValues, peerDependencies : FieldValues] :
        /\ KeyCount(m) <= MaxKeys
        /\ \A d \in DepTypes, e \in DepTypes :
               (Keys(m[d]) = {} /\ Keys(m[e]) = {}) => m[d] = m[e]}

RECURSIVE Workspaces(_, _)
\* sequences of at most n manifests of S with distinct names: what
\* mapWorkspaces can find under a root
Workspaces(S, n) ==
    IF n = 0 THEN {<<>>}
    ELSE LET shorter == Workspaces(S, n - 1)
             names == {y.name : y \in S}
             Fresh(ms) ==
                 LET used == {ms[i].name : i \in 1..Len(ms)}
                 IN IF names \subseteq used THEN {}
                    ELSE {y \in S : y.name \notin used}
         IN shorter \cup UNION {{Append(ms, x) : x \in Fresh(ms)} : ms \in shorter}

OriginWorkspaces ==
    Workspaces(UNION {Manifests(p[1], p[2]) : p \in Packages}, MaxMembers)

\* origin workspaces whose members declare no dependency at all
PlainOrigins == {ms \in OriginWorkspaces : \A i \in 1..Len(ms) : KeyCount(ms[i]) = 0
                                              /\ ~ms[i].dependencies.present}

\* a workspace member of the target, declaring nothing or NameScoped
TargetMembers ==
    {[name |-> NameMember, version |-> <<"1">>, dependencies |-> d,
      devDependencies |-> Absent, peerDependencies |-> Absent] :
        d \in {Absent, Obj([k \in {NameScoped} |-> Range])}}

\* a target project: its workspace members (none, or one), then its root
TargetWorkspaces ==
    {ms \o <<r>> : ms \in Workspaces(TargetMembers, 1),
                   r \in Manifests(NameTarget, <<"1">>)}

\* target projects without workspace members and with a dependencies field only
PlainTargets ==
    {<<r>> : r \in {x \in Manifests(NameTarget, <<"1">>) :
                        ~x.devDependencies.present /\ ~x.peerDependencies.present}}

\* the root package.json of the origin workspace: it declares NameScoped
OriginRoot ==
    [name |-> NameRoot, version |-> <<"1">>,
     dependencies |-> Obj([k \in {NameScoped} |-> Range]),
     devDependencies |-> Absent, peerDependencies |-> Absent]

\* a target root that declares NameScoped
ScopedTarget ==
    [name |-> NameTarget, version |-> <<"1">>,
     dependencies |-> Obj([k \in {NameScoped} |-> Range]),
     devDependencies |-> Absent, peerDependencies |-> Absent]

\* an archive that an earlier run wrote for a package o@1 and left behind
StaleTgz == <<"o", "-", "1">> \o Tgz
Notes == <<"n">>

\* what LPCK_PACK_DIR can hold when a run starts
InitialFiles == {{}, {Notes}, {Notes, StaleTgz}}

-----------------------------------------------------------------------------
(* WorkspaceHandler *)

\* Map.prototype.set: an existing key keeps its place
MapSet(reg, info) ==
    IF \E i \in 1..Len(reg) : reg[i].key = info.key
    THEN [i \in 1..Len(reg) |-> IF reg[i].key = info.key THEN info ELSE reg[i]]
    ELSE Append(reg, info)

\* the WorkspaceInfo that load() builds from the package.json in file number f
WorkspaceInfo(packageJson, f) ==
    [key                 |-> packageJson.name,
     file                |-> f,
     packageJson         |-> packageJson,
     packName            |-> getPackName(packageJson),
     oldDependencies     |-> OrEmpty(packageJson.dependencies),
     oldDevDependencies  |-> OrEmpty(packageJson.devDependencies),
     oldPeerDependencies |-> OrEmpty(packageJson.peerDependencies),
     \* the fields of the manifest that are the very object of their
     \* snapshot: none, each snapshot is a structuredClone
     shared              |-> {}]

\* the snapshot of field d that load() took
Old(info, d) ==
    IF d = "dependencies" THEN info.oldDependencies
    ELSE IF d = "devDependencies" THEN info.oldDevDependencies
    ELSE info.oldPeerDependencies

RECURSIVE LoadMembers(_, _)
\* the for loop of load() over the first n files
LoadMembers(files, n) ==
    IF n = 0 THEN <<>>
    ELSE MapSet(LoadMembers(files, n - 1), WorkspaceInfo(files[n], n))

\* load() with the root package.json in file number rootFile
load(memberFiles, rootFile, root, includeWorkspaceRoot) ==
    LET members == LoadMembers(memberFiles, Len(memberFiles))
    IN IF includeWorkspaceRoot
       THEN MapSet(members, WorkspaceInfo(root, rootFile))
       ELSE members

\* getPackages().map(...) of getAvailablePackages, and the default of
\* updateToLocalPacks
AvailablePackages(reg) ==
    [i \in 1..Len(reg) |-> [name     |-> reg[i].packageJson.name,
                            packName |-> getPackName(reg[i].packageJson)]]

IsAvailable(available, dependencyName) ==
    \E i \in 1..Len(available) : available[i].name = dependencyName

\* availableDependencies.find(...)
Find(available, dependencyName) ==
    available[CHOOSE i \in 1..Len(available) :
                 /\ available[i].name = dependencyName
                 /\ \A j \in 1..(i - 1) : available[j].name # dependencyName]

\* the body of the depType loop with (content[depType] ?? {}) in place of
\* "if (!deps) continue"
NewDeps_NoSkip(deps, available) ==
    Obj([dependencyName \in DOMAIN OrEmpty(deps) |->
            IF IsAvailable(available, dependencyName)
            THEN getPackDir(Find(available, dependencyName).packName)
            ELSE deps.map[dependencyName]])

\* the body of the depType loop with path.join(LPCK_PACK_DIR, <the value>)
\* in place of getPackDir(depToUse.packName)
NewDeps_JoinOld(deps, available) ==
    IF ~deps.present THEN deps
    ELSE Obj([dependencyName \in DOMAIN deps.map |->
                 IF IsAvailable(available, dependencyName)
                 THEN getPackDir(deps.map[dependencyName])
                 ELSE deps.map[dependencyName]])

\* the body of the depType loop for one field
NewDeps(deps, available) ==
    IF ~deps.present THEN deps
    ELSE Obj([dependencyName \in DOMAIN deps.map |->
                 IF IsAvailable(available, dependencyName)
                 THEN getPackDir(Find(available, dependencyName).packName)
                 ELSE deps.map[dependencyName]])

\* the content of one package.json after the depType loop
UpdatedContent(content, available) ==
    [content EXCEPT
        !.dependencies     = NewDeps(content.dependencies, available),
        !.devDependencies  = NewDeps(content.devDependencies, available),
        !.peerDependencies = NewDeps(content.peerDependencies, available)]

\* the flag "changed" after the depType loop
Changed(content, available) ==
    \E d \in DepTypes : \E k \in Keys(content[d]) : IsAvailable(available, k)

\* the iterations of the packageInfo loop that run before "return used"

Iterations(reg) == IF Len(reg) = 0 THEN {} ELSE {1}

\* the snapshot of field d after the depType loop with newDeps = deps in
\* place of structuredClone(deps): a field that is the snapshot object is
\* written in place
SnapshotAfter_NoClone(info, d, newDeps) ==
    IF d \in info.shared THEN newDeps.map ELSE Old(info, d)

\* the snapshot of field d after the depType loop has written newDeps, a
\* structuredClone of the field: another object than the snapshot
SnapshotAfter(info, d, newDeps) == Old(info, d)

\* one entry after its iteration of the packageInfo loop: content[depType] is
\* assigned the clone for every field that is present
UpdatedInfo(info, available) ==
    LET content == UpdatedContent(info.packageJson, available)
    IN [info EXCEPT
           !.packageJson = content,
           !.oldDependencies =
               SnapshotAfter(info, "dependencies", content.dependencies),
           !.oldDevDependencies =
               SnapshotAfter(info, "devDependencies", content.devDependencies),
           !.oldPeerDependencies =
               SnapshotAfter(info, "peerDependencies", content.peerDependencies),
           !.shared = @ \ {d \in DepTypes : info.packageJson[d].present}]

\* #packagesInfos after updateToLocalPacks(availablePackages), saves aside
updateToLocalPacks(reg, available) ==
    [i \in 1..Len(reg) |->
        IF i \in Iterations(reg) THEN UpdatedInfo(reg[i], available) ELSE reg[i]]

\* updateToLocalPacks with save() outside "if (changed)"
UpdateSaves_Always(reg, available) == Iterations(reg)

\* the entries updateToLocalPacks saves
UpdateSaves(reg, available) ==
    {i \in Iterations(reg) : Changed(reg[i].packageJson, available)}

\* one field after restore(): the snapshot without the peerDependencies branch
RestoredField_NoPeer(d, deps, old) ==
    IF d # "peerDependencies" /\ DOMAIN old # {} THEN Obj(old) ELSE deps

\* one field after restore(): the snapshot, without the test of its length
RestoredField_Always(d, deps, old) == Obj(old)

\* one field after restore(): assigned the snapshot when it has a key
RestoredField(d, deps, old) == IF DOMAIN old # {} THEN Obj(old) ELSE deps

\* the content of one entry after its iteration of restore()
RestoredContent(info) ==
    [info.packageJson EXCEPT
        !.dependencies     = RestoredField("dependencies", @, info.oldDependencies),
        !.devDependencies  =
            RestoredField("devDependencies", @, info.oldDevDependencies),
        !.peerDependencies =
            RestoredField("peerDependencies", @, info.oldPeerDependencies)]

\* the flag "changed" of restore() for one entry
RestoreChanged(info) ==
    \/ DOMAIN info.oldDependencies # {}
    \/ DOMAIN info.oldDevDependencies # {}
    \/ DOMAIN info.oldPeerDependencies # {}

\* #packagesInfos after restore() has run its first n iterations
restore(reg, n) ==
    [i \in 1..Len(reg) |->
        IF i <= n
        THEN [reg[i] EXCEPT
                 !.packageJson = RestoredContent(reg[i]),
                 \* content.dependencies = packageInfo.oldDependencies: the
                 \* field is the snapshot object from here on
                 !.shared = @ \cup {d \in DepTypes : DOMAIN Old(reg[i], d) # {}}]
        ELSE reg[i]]

\* the origin's root file (file number 0) after the entries in "saved" were
\* written with packageJson.save()
SaveRoot(rootFile, reg, saved) ==
    IF \E i \in saved : reg[i].file = 0
    THEN reg[CHOOSE i \in saved : reg[i].file = 0].packageJson
    ELSE rootFile

\* the files after the entries in "saved" were written with packageJson.save()
Save(disk, reg, saved) ==
    [f \in 1..Len(disk) |->
        IF \E i \in saved : reg[i].file = f
        THEN reg[CHOOSE i \in saved : reg[i].file = f].packageJson
        ELSE disk[f]]

-----------------------------------------------------------------------------
(* The command line and the run *)

ExitCodes == {0, 1}

\* the command lines modelled: lpck <dir> [--rawInstall], and
\* lpck -p <name> [--noPrepack] [--rawInstall]
CommandLines ==
    [preset : BOOLEAN, noPrepack : BOOLEAN, rawInstall : BOOLEAN]

\* #loadArgs: the preset branch copies noPrepack only, the positional branch
\* rawInstall only; a flag that is not copied is undefined, which is falsy
loadArgs(cli) ==
    IF cli.preset
    THEN [command |-> "preset", noPrepack |-> cli.noPrepack, rawInstall |-> FALSE]
    ELSE [command |-> "install", noPrepack |-> FALSE, rawInstall |-> cli.rawInstall]

\* what .lpckrc holds for the preset named: nothing, a preset whose prepack is
\* "", or a preset with a prepack command
PresetCmds == {"missing", "empty", "script"}

NoFlags == [preset |-> FALSE, noPrepack |-> FALSE, rawInstall |-> FALSE]

\* the runs whose origin workspace varies
OriginRuns ==
    [cli : {NoFlags}, presetCmd : {"missing"}, origin : OriginWorkspaces,
     target : {<<ScopedTarget>>}, files : {{}}]

\* the runs whose target, archive directory and --rawInstall vary
TargetRuns ==
    [cli : {c \in CommandLines : ~c.preset /\ ~c.noPrepack}, presetCmd : {"missing"},
     origin : PlainOrigins, target : TargetWorkspaces, files : InitialFiles]

\* the runs of a preset
PresetRuns ==
    [cli : {c \in CommandLines : c.preset}, presetCmd : PresetCmds,
     origin : PlainOrigins, target : PlainTargets, files : {{}}]

Runs == OriginRuns \cup TargetRuns \cup PresetRuns

Init ==
    \E r \in Runs :
        /\ pc = "run"
        /\ args = loadArgs(r.cli)
        /\ presetCmd = r.presetCmd
        /\ origin = <<>>
        /\ originDisk = r.origin
        /\ originRoot = OriginRoot
        /\ target = <<>>
        /\ targetDisk = r.target
        \* the constructor's #createRequiredFolders
        /\ packDir = [exists |-> TRUE, files |-> r.files]
        /\ emitted = {}
        /\ tool = {}
        /\ packExit = {}
        /\ installExit = {}
        /\ spawned = <<>>
        /\ reported = <<>>
        /\ failure = "none"
        /\ steps = <<>>
        /\ saves = <<>>
        /\ before = [origin |-> r.origin, target |-> r.target, root |-> OriginRoot]

\* a rejected promise leaves #install (and run) at the step named
Reject(step) == pc' = "failed" /\ failure' = step

\* spawn(cmd, [..., ...paths, ...flags])
Spawn(cmd, paths, flags) ==
    spawned' = Append(spawned, [cmd |-> cmd, paths |-> paths, flags |-> flags])

\* a promise that nobody awaits: the caller goes on while the process runs
AfterSpawn_NoAwait(waiting, next) == next

\* await new Promise(...): the caller is suspended until the exit handler of
\* the process settles the promise
AfterSpawn(waiting, next) == waiting

\* an exit handler that resolves whatever the exit code is
OnExit_Resolve(code, next) == next

\* p.on("exit", (code) => (code === 0 ? resolve() : reject(code)))
OnExit(code, next) == IF code = 0 THEN next ELSE "failed"

\* #preset without the test of --noPrepack
RunsPrepack_IgnoresFlag(cmd, noPrepack) == cmd = "script"

\* preset.prepack && !this.#args.noPrepack ("" is falsy)
RunsPrepack(cmd, noPrepack) == cmd = "script" /\ ~noPrepack

\* run() and #preset up to the spawn of the prepack command
Run ==
    /\ pc = "run"
    /\ IF args.command = "preset" /\ presetCmd = "missing"
       THEN /\ Reject("preset")
            /\ UNCHANGED <<tool, spawned, steps>>
       ELSE IF args.command = "preset" /\ RunsPrepack(presetCmd, args.noPrepack)
       THEN /\ pc' = AfterSpawn("prepack", "originLoad")
            /\ tool' = tool \cup {"prepack"}
            /\ Spawn("prepack", {}, {})
            /\ steps' = Append(steps, "prepack")
            /\ UNCHANGED failure
       ELSE /\ pc' = "originLoad"
            /\ UNCHANGED <<tool, spawned, steps, failure>>
    /\ UNCHANGED <<args, presetCmd, origin, originDisk, originRoot, target, targetDisk,
                   packDir, emitted, packExit, installExit, reported, saves, before>>

\* the exit handler of prepack
PrepackExit ==
    /\ pc = "prepack"
    /\ tool' = tool \ {"prepack"}
    /\ \E code \in ExitCodes :
          /\ pc' = OnExit(code, "originLoad")
          /\ failure' = IF code = 0 THEN failure ELSE "prepack"
    /\ UNCHANGED <<args, presetCmd, origin, originDisk, originRoot, target, targetDisk,
                   packDir, emitted, packExit, installExit, spawned, reported,
                   steps, saves, before>>

\* originPackage.load() inside the try block: a rejection does not leave #install
AfterOriginLoad_Continue(loaded) == "updateDependencies"

\* where #install goes after originPackage.load(), which no try block encloses
AfterOriginLoad(loaded) == IF loaded THEN "updateDependencies" ELSE "failed"

\* OriginWorkspace.load() with load() in place of load(false)
originIncludeWorkspaceRoot_Default == TRUE

\* the argument of this.#workspaceHandler.load(false) in OriginWorkspace.load
originIncludeWorkspaceRoot == FALSE

\* originPackage.load(): it completes, or getPackageJson / mapWorkspaces rejects
\* with n members loaded (none when it is the root that cannot be read)
OriginLoad ==
    /\ pc = "originLoad"
    /\ steps' = Append(steps, "originLoad")
    /\ \E n \in 0..Len(originDisk), loaded \in BOOLEAN :
          /\ IF loaded THEN n = Len(originDisk) ELSE n = 0 \/ n < Len(originDisk)
          /\ origin' = load(SubSeq(originDisk, 1, n), 0, originRoot,
                            loaded /\ originIncludeWorkspaceRoot)
          /\ pc' = AfterOriginLoad(loaded)
          /\ failure' = IF loaded THEN failure ELSE "originLoad"
    /\ UNCHANGED <<args, presetCmd, originDisk, originRoot, target, targetDisk, packDir,
                   emitted, tool, packExit, installExit, spawned, reported, saves, before>>

\* the try block without its catch: the error leaves #install after finally
AfterCatch_Rethrow(next) == "failed"

\* a catch block that runs the try block again
AfterCatch_Retry(next) == "updateDependencies"

\* where #install goes after finally when the try block threw: the catch
\* block printed the error and swallowed it
AfterCatch(next) == next

\* the try block with restoreDependencies() as its last statement in place of
\* the finally block
AfterTry_NoFinally(threw) == IF threw THEN "targetLoad" ELSE "restoreDependencies"

\* where #install goes when the try block ends or throws: the finally block
AfterTry(threw) == "restoreDependencies"

\* the save() calls of "step" on the files of the entries in "saved", in order
SaveCalls(ws, step, reg, saved) ==
    LET RECURSIVE Upto(_)
        Upto(n) == IF n = 0 THEN <<>>
                   ELSE Upto(n - 1) \o
                        (IF n \in saved
                         THEN <<[ws |-> ws, step |-> step, file |-> reg[n].file]>>
                         ELSE <<>>)
    IN Upto(Len(reg))

\* originPackage.updateDependencies(); a save() that rejects is caught
UpdateDependencies ==
    /\ pc = "updateDependencies"
    /\ steps' = Append(steps, "updateDependencies")
    /\ LET available == AvailablePackages(origin)
           saved == UpdateSaves(origin, available)
       IN /\ origin' = updateToLocalPacks(origin, available)
          /\ \E written \in BOOLEAN :
                /\ ~written => saved # {}
                /\ IF written
                   THEN /\ originDisk' = Save(originDisk, origin', saved)
                        /\ originRoot' = SaveRoot(originRoot, origin', saved)
                        /\ saves' = saves \o SaveCalls("origin", "updateDependencies",
                                                       origin', saved)
                        /\ pc' = "pack"
                        /\ UNCHANGED reported
                   ELSE /\ reported' = Append(reported, "updateDependencies")
                        /\ pc' = AfterTry(TRUE)
                        /\ UNCHANGED <<originDisk, originRoot, saves>>
    /\ UNCHANGED <<args, presetCmd, target, targetDisk, packDir, emitted, tool,
                   packExit, installExit, spawned, failure, before>>

\* pack() up to spawn("npm", ["pack", ...])
Pack ==
    /\ pc = "pack"
    /\ steps' = Append(steps, "pack")
    /\ packDir' = [packDir EXCEPT !.exists = TRUE]
    /\ tool' = tool \cup {"pack"}
    /\ Spawn("pack", {}, {"--pack-destination", "--workspaces"})
    /\ pc' = AfterSpawn("packing", AfterTry(FALSE))
    /\ UNCHANGED <<args, presetCmd, origin, originDisk, originRoot, target, targetDisk,
                   emitted, packExit, installExit, reported, failure, saves, before>>

\* the archives npm pack writes for the first n members, named from the
\* package.json files as they are on disk
Archives(disk, n) == {getPackName(disk[i]) : i \in 1..n}

\* the exit handler of npm pack: exit 0 after one archive per member, or a
\* non-zero exit after the first n
PackExit ==
    /\ pc = "packing"
    /\ tool' = tool \ {"pack"}
    /\ \E code \in ExitCodes, n \in 0..Len(originDisk) :
          /\ code = 0 => n = Len(originDisk)
          /\ emitted' = Archives(originDisk, n)
          /\ packDir' = [packDir EXCEPT !.files = @ \cup emitted']
          /\ packExit' = {code}
          /\ reported' = IF code = 0 THEN reported ELSE Append(reported, "pack")
    /\ pc' = AfterTry(packExit' # {0})
    /\ UNCHANGED <<args, presetCmd, origin, originDisk, originRoot, target, targetDisk,
                   installExit, spawned, failure, steps, saves, before>>

\* restore() without its save() calls
RestoreSaves_None(reg, n) == {}

\* the entries that the first n iterations of restore() save
RestoreSaves(reg, n) == {i \in 1..n : RestoreChanged(reg[i])}

\* restoreDependencies() inside a try block of its own, whose catch block
\* swallows the rejection
AfterRestoreReject_Swallowed(next) == next

\* where #install goes when restoreDependencies() rejects in the finally
\* block: the rejection replaces the completion of the try statement
AfterRestoreReject(next) == "failed"

\* originPackage.restoreDependencies() in the finally block: it completes
\* (failed = 0), or the save() of entry "failed" rejects
RestoreDependencies ==
    /\ pc = "restoreDependencies"
    /\ steps' = Append(steps, "restoreDependencies")
    /\ \E failed \in 0..Len(origin) :
          /\ failed # 0 => failed \in RestoreSaves(origin, failed)
          /\ LET n == IF failed = 0 THEN Len(origin) ELSE failed
                 saved == RestoreSaves(origin, n) \ {failed}
                 threw == Len(reported) > 0
             IN /\ origin' = restore(origin, n)
                /\ originDisk' = Save(originDisk, origin', saved)
                /\ originRoot' = SaveRoot(originRoot, origin', saved)
                /\ saves' = saves \o SaveCalls("origin", "restoreDependencies",
                                               origin', saved)
                /\ IF failed # 0
                   THEN /\ pc' = AfterRestoreReject("targetLoad")
                        /\ failure' = "restoreDependencies"
                   ELSE /\ pc' = IF threw THEN AfterCatch("targetLoad")
                                 ELSE "targetLoad"
                        /\ failure' = IF pc' = "failed" THEN reported[Len(reported)]
                                      ELSE failure
    /\ UNCHANGED <<args, presetCmd, target, targetDisk, packDir, emitted, tool,
                   packExit, installExit, spawned, reported, before>>

\* targetPackage.load(): it completes, or rejects with n members loaded
TargetLoad ==
    /\ pc = "targetLoad"
    /\ steps' = Append(steps, "targetLoad")
    /\ LET rootFile == Len(targetDisk)
           members == SubSeq(targetDisk, 1, rootFile - 1)
       IN \E n \in 0..Len(members), loaded \in BOOLEAN :
             /\ IF loaded THEN n = Len(members) ELSE n = 0 \/ n < Len(members)
             /\ target' = load(SubSeq(members, 1, n), rootFile,
                               targetDisk[rootFile], loaded)
             /\ IF loaded THEN pc' = "install" /\ UNCHANGED failure
                ELSE Reject("targetLoad")
    /\ UNCHANGED <<args, presetCmd, origin, originDisk, originRoot, targetDisk, packDir,
                   emitted, tool, packExit, installExit, spawned, reported, saves, before>>

\* targetPackage.install up to installAllPacks: updateToLocalPacks with
\* originPackage.getAvailablePackages(); a save() that rejects leaves #install
Install ==
    /\ pc = "install"
    /\ steps' = Append(steps, "install")
    /\ LET available == AvailablePackages(origin)
           saved == UpdateSaves(target, available)
       IN /\ target' = updateToLocalPacks(target, available)
          /\ \E written \in BOOLEAN :
                /\ ~written => saved # {}
                /\ IF written
                   THEN /\ targetDisk' = Save(targetDisk, target', saved)
                        /\ saves' = saves \o SaveCalls("target", "install", target',
                                                       saved)
                        /\ pc' = "installAllPacks"
                        /\ UNCHANGED failure
                   ELSE /\ Reject("install")
                        /\ UNCHANGED <<targetDisk, saves>>
    /\ UNCHANGED <<args, presetCmd, origin, originDisk, originRoot, packDir, emitted, tool,
                   packExit, installExit, spawned, reported, before>>

\* files.filter((f) => f.endsWith(".tgz")).map((f) => path.join(LPCK_PACK_DIR, f))
TgzPaths(files) == {getPackDir(f) : f \in {g \in files : EndsWith(g, Tgz)}}

\* the archive paths of the install command line, with the two branches of
\* the conditional exchanged
InstallPaths_Swapped(rawInstall, tgzPaths) == IF rawInstall THEN tgzPaths ELSE {}

\* ...(rawInstall ? [] : tgzPaths)
InstallPaths(rawInstall, tgzPaths) == IF rawInstall THEN {} ELSE tgzPaths

\* installAllPacks without its two early returns
ReturnsEarly_Never(dir) == FALSE

\* the two early returns of installAllPacks: no directory, or no .tgz in it
ReturnsEarly(dir) == ~dir.exists \/ TgzPaths(dir.files) = {}

\* installAllPacks up to spawn("npm", ["install", ...]), or to its early return
InstallAllPacks ==
    /\ pc = "installAllPacks"
    /\ IF ReturnsEarly(packDir)
       THEN /\ pc' = "cleanUp"
            /\ UNCHANGED <<tool, spawned>>
       ELSE /\ pc' = AfterSpawn("installing", "cleanUp")
            /\ tool' = tool \cup {"install"}
            /\ Spawn("install", InstallPaths(args.rawInstall, TgzPaths(packDir.files)),
                     {"--no-save"})
    /\ UNCHANGED <<args, presetCmd, origin, originDisk, originRoot, target, targetDisk,
                   packDir, emitted, packExit, installExit, reported, failure, steps, saves, before>>

\* the exit handler of npm install
InstallExit ==
    /\ pc = "installing"
    /\ tool' = tool \ {"install"}
    /\ \E code \in ExitCodes :
          /\ installExit' = {code}
          /\ pc' = OnExit(code, "cleanUp")
          /\ failure' = IF code = 0 THEN failure ELSE "install"
    /\ UNCHANGED <<args, presetCmd, origin, originDisk, originRoot, target, targetDisk,
                   packDir, emitted, packExit, spawned, reported, steps, saves,
                   before>>

\* #cleanUpPacks without its rmSync
cleanUpPacks_Keep(dir) == dir

\* #cleanUpPacks: rmSync(LPCK_PACK_DIR, { recursive: true }) when it exists
cleanUpPacks(dir) == IF dir.exists THEN [exists |-> FALSE, files |-> {}] ELSE dir

\* #cleanUpPacks() and console.info(green("Done"))
CleanUpPacks ==
    /\ pc = "cleanUp"
    /\ steps' = steps \o <<"cleanUp", "done">>
    /\ packDir' = cleanUpPacks(packDir)
    /\ pc' = "done"
    /\ UNCHANGED <<args, presetCmd, origin, originDisk, originRoot, target, targetDisk,
                   emitted, tool, packExit, installExit, spawned, reported, failure, saves, before>>

Next ==
    \/ Run
    \/ PrepackExit
    \/ OriginLoad
    \/ UpdateDependencies
    \/ Pack
    \/ PackExit
    \/ RestoreDependencies
    \/ TargetLoad
    \/ Install
    \/ InstallAllPacks
    \/ InstallExit
    \/ CleanUpPacks

Spec == Init /\ [][Next]_vars

-----------------------------------------------------------------------------
(* getPackName on arbitrary names and versions: the load of a workspace   *)
(* with one member, whose WorkspaceInfo holds getPackName(packageJson)     *)

Chars == {"@", "/", "a"}

Strings == UNION {[1..n -> Chars] : n \in 1..MaxLen}

ScopePkg == <<"@", "s", "c", "o", "p", "e", "/", "p", "k", "g">>
V123 == <<"1", ".", "2", ".", "3">>

\* a package.json with the name and version given and no dependency field
Bare(name, version) ==
    [name |-> name, version |-> version, dependencies |-> Absent,
     devDependencies |-> Absent, peerDependencies |-> Absent]

PackNameInputs == (Strings \X Strings) \cup {<<ScopePkg, V123>>}

PackNameInit ==
    \E nv \in PackNameInputs :
        /\ pc = "originLoad"
        /\ args = loadArgs(NoFlags)
        /\ presetCmd = "missing"
        /\ origin = <<>>
        /\ originDisk = <<Bare(nv[1], nv[2])>>
        /\ originRoot = OriginRoot
        /\ target = <<>>
        /\ targetDisk = <<ScopedTarget>>
        /\ packDir = [exists |-> TRUE, files |-> {}]
        /\ emitted = {}
        /\ tool = {}
        /\ packExit = {}
        /\ installExit = {}
        /\ spawned = <<>>
        /\ reported = <<>>
        /\ failure = "none"
        /\ steps = <<>>
        /\ saves = <<>>
        /\ before = [origin |-> originDisk, target |-> targetDisk,
                     root |-> OriginRoot]

PackNameSpec == PackNameInit /\ [][OriginLoad]_vars

-----------------------------------------------------------------------------
(* The earlier build (src/unnamed/part_000): TargetPackage.install, which  *)
(* installs the available packages the target declares.  The command line *)
(* of its npm install is kept as a sequence, in argument order.            *)

\* the names a package of the earlier build's origin or a key of its target
\* can have
SnapshotNames == {NameScoped, NameDashed, NameMember}

\* the origin workspaces of the earlier build: members without dependencies
SnapshotOrigins ==
    Workspaces({Bare(name, <<"1">>) : name \in SnapshotNames}, MaxMembers)

\* the target package.json files of the earlier build
SnapshotTargets ==
    {[Bare(NameTarget, <<"1">>) EXCEPT !.dependencies = d] :
        d \in {Absent} \cup {Obj([k \in S |-> Range]) : S \in SUBSET SnapshotNames}}

\* the state when #install of the earlier build calls targetPackage.install:
\* origin and target loaded, the origin packed and restored
SnapshotInit ==
    \E ms \in SnapshotOrigins, root \in SnapshotTargets :
        /\ pc = "install"
        /\ args = loadArgs(NoFlags)
        /\ presetCmd = "missing"
        /\ origin = load(ms, 0, <<>>, FALSE)
        /\ originDisk = ms
        /\ originRoot = OriginRoot
        /\ target = <<WorkspaceInfo(root, 1)>>
        /\ targetDisk = <<root>>
        /\ packDir = [exists |-> TRUE, files |-> Archives(ms, Len(ms))]
        /\ emitted = Archives(ms, Len(ms))
        /\ tool = {}
        /\ packExit = {0}
        /\ installExit = {}
        /\ spawned = <<>>
        /\ reported = <<>>
        /\ failure = "none"
        /\ steps = <<>>
        /\ saves = <<>>
        /\ before = [origin |-> ms, target |-> <<root>>, root |-> OriginRoot]

\* availablePackages without the filter
dependenciesToInstal_All(availablePackages, dependencyNames) == availablePackages

\* availablePackages.filter(p => dependencyNames.includes(p.name))
dependenciesToInstal(availablePackages, dependencyNames) ==
    SelectSeq(availablePackages, LAMBDA p : p.name \in dependencyNames)

\* dependenciesToInstal.map(p => getPackDir(p.packName))
packDirs(toInstal) == [i \in 1..Len(toInstal) |-> getPackDir(toInstal[i].packName)]

\* TargetPackage.install(availablePackages) of the earlier build, up to the
\* spawn of install(targetPackageDir, packDirs) or to one of its two returns
TargetPackageInstall ==
    /\ pc = "install"
    /\ steps' = Append(steps, "install")
    /\ LET dependencies == target[1].packageJson.dependencies
           toInstal == dependenciesToInstal(AvailablePackages(origin),
                                            DOMAIN dependencies.map)
       IN IF ~dependencies.present \/ Len(toInstal) = 0
          THEN /\ pc' = "cleanUp"
               /\ UNCHANGED <<tool, spawned>>
          ELSE /\ pc' = AfterSpawn("installing", "cleanUp")
               /\ tool' = tool \cup {"install"}
               /\ Spawn("install", packDirs(toInstal), {})
    /\ UNCHANGED <<args, presetCmd, origin, originDisk, originRoot, target, targetDisk,
                   packDir, emitted, packExit, installExit, reported, failure,
                   saves, before>>

SnapshotNext ==
    \/ TargetPackageInstall
    \/ InstallExit
    \/ CleanUpPacks

SnapshotSpec == SnapshotInit /\ [][SnapshotNext]_vars

-----------------------------------------------------------------------------
(* WorkspaceHandler by itself: updateToLocalPacks(), restore() and pack()  *)
(* called in any order on a loaded handler.  pc is the last call, steps    *)
(* the last two calls, failure the last call when it rejected; the logs    *)
(* of a run (spawned, saves) are not kept.                                 *)

Calls == {"updateToLocalPacks", "restore", "pack"}

\* the workspaces the handler is loaded from: version 1 members, a second
\* member after NameDashed only, with keys in dependencies only
HandlerWorkspaces ==
    {ms \in OriginWorkspaces :
        /\ \A i \in 1..Len(ms) : ms[i].version = <<"1">>
        /\ Len(ms) >= 2 =>
               /\ ms[1].name = NameDashed
               /\ \A i \in 2..Len(ms) :
                      /\ Keys(ms[i].devDependencies) = {}
                      /\ Keys(ms[i].peerDependencies) = {}}

HandlerInit ==
    \E ms \in HandlerWorkspaces :
        /\ pc = "load"
        /\ args = loadArgs(NoFlags)
        /\ presetCmd = "missing"
        /\ origin = load(ms, 0, OriginRoot, originIncludeWorkspaceRoot)
        /\ originDisk = ms
        /\ originRoot = OriginRoot
        /\ target = <<>>
        /\ targetDisk = <<ScopedTarget>>
        /\ packDir = [exists |-> TRUE, files |-> {}]
        /\ emitted = {}
        /\ tool = {}
        /\ packExit = {}
        /\ installExit = {}
        /\ spawned = <<>>
        /\ reported = <<>>
        /\ failure = "none"
        /\ steps = <<>>
        /\ saves = <<>>
        /\ before = [origin |-> ms, target |-> targetDisk, root |-> OriginRoot]

\* the call made now, after the call made before it
LastTwo(log, call) == IF log = <<>> THEN <<call>> ELSE <<log[Len(log)], call>>

\* what a call leaves alone in any case
HandlerFrame ==
    UNCHANGED <<args, presetCmd, target, targetDisk, tool, installExit, spawned,
                reported, saves, before>>

\* updateToLocalPacks(): it completes, or its save() rejects
UpdateCall ==
    /\ pc' = "updateToLocalPacks"
    /\ steps' = LastTwo(steps, "updateToLocalPacks")
    /\ LET available == AvailablePackages(origin)
           saved == UpdateSaves(origin, available)
       IN /\ origin' = updateToLocalPacks(origin, available)
          /\ \E written \in BOOLEAN :
                /\ ~written => saved # {}
                /\ IF written
                   THEN /\ originDisk' = Save(originDisk, origin', saved)
                        /\ originRoot' = SaveRoot(originRoot, origin', saved)
                        /\ failure' = "none"
                   ELSE /\ failure' = "updateToLocalPacks"
                        /\ UNCHANGED <<originDisk, originRoot>>
    /\ UNCHANGED <<packDir, emitted, packExit>>
    /\ HandlerFrame

\* restore(): it completes (failed = 0), or the save() of entry "failed"
\* rejects
RestoreCall ==
    /\ pc' = "restore"
    /\ steps' = LastTwo(steps, "restore")
    /\ \E failed \in 0..Len(origin) :
          /\ failed # 0 => failed \in RestoreSaves(origin, failed)
          /\ LET n == IF failed = 0 THEN Len(origin) ELSE failed
                 saved == RestoreSaves(origin, n) \ {failed}
             IN /\ origin' = restore(origin, n)
                /\ originDisk' = Save(originDisk, origin', saved)
                /\ originRoot' = SaveRoot(originRoot, origin', saved)
                /\ failure' = IF failed = 0 THEN "none" ELSE "restore"
    /\ UNCHANGED <<packDir, emitted, packExit>>
    /\ HandlerFrame

\* pack(), from mkdirSync to the exit of npm pack
PackCall ==
    /\ pc' = "pack"
    /\ steps' = LastTwo(steps, "pack")
    /\ \E code \in ExitCodes, n \in 0..Len(originDisk) :
          /\ code = 0 => n = Len(originDisk)
          /\ emitted' = Archives(originDisk, n)
          /\ packDir' = [exists |-> TRUE, files |-> packDir.files \cup emitted']
          /\ packExit' = {code}
          /\ failure' = IF code = 0 THEN "none" ELSE "pack"
    /\ UNCHANGED <<origin, originDisk, originRoot>>
    /\ HandlerFrame

HandlerNext ==
    \/ UpdateCall
    \/ RestoreCall
    \/ PackCall

HandlerSpec == HandlerInit /\ [][HandlerNext]_vars

-----------------------------------------------------------------------------
(* Properties *)

Ran(seq) == {seq[i] : i \in 1..Len(seq)}

Count(seq, x) == Cardinality({i \in 1..Len(seq) : seq[i] = x})

\* originPackage.load() has completed
OriginLoaded ==
    /\ pc \notin {"run", "prepack", "originLoad"}
    /\ failure \notin {"preset", "prepack", "originLoad"}

\* the try/finally statement of #install has been left without a rejection
\* of restoreDependencies
PastRestore ==
    \/ pc \in {"targetLoad", "install", "installAllPacks", "installing",
               "cleanUp", "done"}
    \/ pc = "failed" /\ failure \in {"targetLoad", "install"}

\* updateToLocalPacks wrote a substituted manifest of the origin
OriginSubstituted ==
    \E i \in 1..Len(saves) :
        saves[i].ws = "origin" /\ saves[i].step = "updateDependencies"

SameDeps(m, n) == \A d \in DepTypes : m[d] = n[d]

InstallSpawns == {i \in 1..Len(spawned) : spawned[i].cmd = "install"}

\* C1: once the origin has loaded, restoreDependencies runs exactly once in
\* the run, and not before the try block has ended: npm pack has exited (0 or
\* not) or updateDependencies has thrown.
C1_RestoreExactlyOnce ==
    LET n == Count(steps, "restoreDependencies")
    IN /\ n <= 1
       /\ (OriginLoaded /\ n = 0) =>
              pc \in {"updateDependencies", "pack", "packing", "restoreDependencies"}
       /\ n = 1 =>
              /\ "pack" \notin tool
              /\ "updateDependencies" \in Ran(steps)
              /\ packExit # {} \/ reported = <<"updateDependencies">>
       /\ (OriginLoaded /\ pc \in {"done", "failed"}) => n = 1

\* a run ended with restore run once after updateDependencies threw
C1_Witness ==
    /\ pc \in {"done", "failed"}
    /\ reported = <<"updateDependencies">>
    /\ Count(steps, "restoreDependencies") = 1

\* C2: from target loading on, every origin manifest, in memory and on disk,
\* has its three dependency fields as they were when the origin was loaded.
C2_OriginUnchangedAfterRestore ==
    PastRestore =>
        /\ Len(origin) = Len(before.origin)
        /\ \A i \in 1..Len(origin) :
              /\ SameDeps(origin[i].packageJson, before.origin[i])
              /\ SameDeps(originDisk[origin[i].file], before.origin[i])

\* a run that wrote a substituted manifest, whose pack failed, reached Done
C2_Witness ==
    /\ pc = "done"
    /\ packExit = {1}
    /\ OriginSubstituted

\* C3 as stated: after updateToLocalPacks, in every entry and field, a key
\* that names an available package has that package's archive path, and any
\* other key has the value it had before.
C3_AllEntriesSubstituted ==
    LET Holds(reg, was) ==
            \A i \in 1..Len(reg) : \A d \in DepTypes :
                \A k \in Keys(reg[i].packageJson[d]) :
                    IF \E j \in 1..Len(origin) : origin[j].packageJson.name = k
                    THEN \E j \in 1..Len(origin) :
                            /\ origin[j].packageJson.name = k
                            /\ reg[i].packageJson[d].map[k]
                                   = getPackDir(origin[j].packName)
                    ELSE reg[i].packageJson[d].map[k] = was[reg[i].file][d].map[k]
    IN /\ pc = "pack" => Holds(origin, before.origin)
       /\ pc = "installAllPacks" => Holds(target, before.target)

\* C4 as stated: the archive paths of a non-raw install are exactly those of
\* the available packages that the target root declares in dependencies.
C4_InstallsDeclaredOnly ==
    (~args.rawInstall /\ pc = "installing") =>
        LET root == before.target[Len(before.target)]
            available == AvailablePackages(origin)
        IN spawned[Len(spawned)].paths =
               {getPackDir(available[i].packName) :
                   i \in {j \in 1..Len(available) :
                             available[j].name \in Keys(root.dependencies)}}

\* C5 as stated: after a non-raw install the target's package.json files have
\* the dependency fields they had before the run.
C5_TargetManifestNotPersisted ==
    (~args.rawInstall /\ pc \in {"installAllPacks", "installing", "cleanUp", "done"}) =>
        \A f \in 1..Len(targetDisk) : SameDeps(targetDisk[f], before.target[f])

\* C6 as stated: a raw install is invoked with the path of every archive in
\* the archive directory.
C6_RawInstallsEveryArchive ==
    (args.rawInstall /\ pc = "installing") =>
        spawned[Len(spawned)].paths = TgzPaths(packDir.files)

\* C6 amended: a raw install is invoked, once and only when the archive
\* directory holds an archive, with --no-save and no archive path at all.
C6_RawInstallsNoPath ==
    args.rawInstall =>
        /\ pc = "installing" =>
              /\ TgzPaths(packDir.files) # {}
              /\ spawned[Len(spawned)] =
                     [cmd |-> "install", paths |-> {}, flags |-> {"--no-save"}]
        /\ (pc = "cleanUp" /\ InstallSpawns = {}) => TgzPaths(packDir.files) = {}
        /\ \A i \in InstallSpawns : spawned[i].paths = {}
        /\ Cardinality(InstallSpawns) <= 1

\* a raw install is running with three archives in the directory and a
\* target that declares no dependency
C6_Witness ==
    /\ args.rawInstall
    /\ pc = "installing"
    /\ Cardinality(TgzPaths(packDir.files)) = 3
    /\ \A f \in 1..Len(before.target) : KeyCount(before.target[f]) = 0

\* C7: once restore() has returned after updateToLocalPacks(), every field
\* whose load-time content had a key equals that content, key for key.
C7_RestoreRoundTrip ==
    PastRestore =>
        \A i \in 1..Len(origin) : \A d \in DepTypes :
            LET was == before.origin[origin[i].file][d]
                now == origin[i].packageJson[d]
            IN Keys(was) # {} =>
                   /\ now.present
                   /\ DOMAIN now.map = DOMAIN was.map
                   /\ \A k \in DOMAIN was.map : now.map[k] = was.map[k]

\* restore() has returned after a substitution that was written to disk
C7_Witness ==
    /\ pc = "targetLoad"
    /\ OriginSubstituted
    /\ packExit = {0}

\* C8: after a non-zero exit of npm pack the run goes on: it leaves #install
\* only by a rejection of restore, target load or install, the install is
\* given what the archive directory holds, and Done follows cleanup.
C8_PackFailureContinues ==
    packExit = {1} =>
        /\ pc \in {"restoreDependencies", "targetLoad", "install",
                   "installAllPacks", "installing", "cleanUp", "done", "failed"}
        /\ pc = "failed" => failure \in {"restoreDependencies", "targetLoad", "install"}
        /\ pc = "installing" =>
               spawned[Len(spawned)].paths
                   = InstallPaths(args.rawInstall, TgzPaths(packDir.files))
        /\ pc = "done" =>
               /\ ~packDir.exists
               /\ SubSeq(steps, Len(steps) - 4, Len(steps))
                      = <<"restoreDependencies", "targetLoad", "install",
                          "cleanUp", "done">>

\* a run whose pack failed after writing an archive installed it and is Done
C8_Witness ==
    /\ pc = "done"
    /\ packExit = {1}
    /\ InstallSpawns # {}
    /\ emitted # {}

\* C9: when the origin load fails the run has ended, no manifest was changed
\* or saved, and neither npm pack nor npm install was spawned.
C9_LoadFailureMutatesNothing ==
    failure = "originLoad" =>
        /\ pc = "failed"
        /\ saves = <<>>
        /\ originDisk = before.origin
        /\ targetDisk = before.target
        /\ \A i \in 1..Len(origin) : origin[i].packageJson = before.origin[origin[i].file]
        /\ \A i \in 1..Len(spawned) : spawned[i].cmd \notin {"pack", "install"}

\* the load of the second member failed after the first, which depends on
\* itself, was loaded
C9_Witness ==
    /\ failure = "originLoad"
    /\ Len(origin) = 1
    /\ Len(originDisk) = 2
    /\ Changed(origin[1].packageJson, AvailablePackages(origin))

\* C10 as stated: two packages of a run that differ in name or version have
\* different archive names.
C10_PackNamesDistinct ==
    \A i \in 1..Len(origin), j \in 1..Len(origin) :
        (<<origin[i].packageJson.name, origin[i].packageJson.version>>
            # <<origin[j].packageJson.name, origin[j].packageJson.version>>)
        => origin[i].packName # origin[j].packName

\* sanitize of the archive naming rule: every "@" removed, every "/" made "-"
sanitize(s) == ReplaceAll(ReplaceAll(s, "@", <<>>), "/", <<"-">>)

Has(s, c) == \E i \in 1..Len(s) : s[i] = c

\* C11 as stated: the archive name of every loaded package is
\* sanitize(name), "-", the version as it is, ".tgz".
C11_PackNameKeepsVersion ==
    \A i \in 1..Len(origin) :
        origin[i].packName =
            sanitize(origin[i].packageJson.name) \o <<"-">>
                \o origin[i].packageJson.version \o Tgz

\* C11 amended: the archive name is sanitize(name), "-", sanitize(version),
\* ".tgz": the version as it is when it holds no "@" and no "/"; and
\* ("@scope/pkg", "1.2.3") gives "scope-pkg-1.2.3.tgz".
C11_PackNameSanitizesVersion ==
    \A i \in 1..Len(origin) :
        LET name == origin[i].packageJson.name
            version == origin[i].packageJson.version
        IN /\ origin[i].packName =
                  sanitize(name) \o <<"-">> \o sanitize(version) \o Tgz
           /\ (~Has(version, "@") /\ ~Has(version, "/")) =>
                  origin[i].packName = sanitize(name) \o <<"-">> \o version \o Tgz
           /\ (name = ScopePkg /\ version = V123) =>
                  origin[i].packName =
                      <<"s", "c", "o", "p", "e", "-", "p", "k", "g", "-",
                        "1", ".", "2", ".", "3", ".", "t", "g", "z">>

\* a package was loaded whose name holds two "@" and whose version holds
\* a "/"
C11_Witness ==
    /\ Len(origin) = 1
    /\ Len(sanitize(origin[1].packageJson.name)) + 2 <= Len(origin[1].packageJson.name)
    /\ Has(origin[1].packageJson.version, "/")

\* C12: once Done is reported, pack failed or not, #cleanUpPacks has run
\* before it, the archive directory is gone and none of the archives this run
\* wrote is left.
C12_DoneAfterCleanup ==
    "done" \in Ran(steps) =>
        /\ \E i \in 1..Len(steps) : \E j \in (i + 1)..Len(steps) :
               steps[i] = "cleanUp" /\ steps[j] = "done"
        /\ ~packDir.exists
        /\ packDir.files = {}
        /\ emitted \cap packDir.files = {}

\* a raw run whose pack exited non-zero after writing an archive is Done
C12_Witness ==
    /\ pc = "done"
    /\ args.rawInstall
    /\ packExit = {1}
    /\ emitted # {}

\* C13: when a save() of restore() rejects, the rejection leaves #install:
\* the run has ended without Done, the target was not loaded and no install
\* was attempted.
C13_RestoreFailurePropagates ==
    failure = "restoreDependencies" =>
        /\ pc = "failed"
        /\ Ran(steps) \cap {"targetLoad", "install", "cleanUp", "done"} = {}
        /\ target = <<>>
        /\ InstallSpawns = {}

\* a save() of restore() rejected and left a substituted manifest on disk
C13_Witness ==
    /\ failure = "restoreDependencies"
    /\ OriginSubstituted
    /\ originDisk # before.origin

\* C14 as stated: after a non-zero exit of npm pack an error was reported,
\* and the run does not end as a run without failure does.
C14_PackFailureFlagged ==
    packExit = {1} =>
        /\ "pack" \in Ran(reported)
        /\ pc # "done"

\* C15: after a non-zero exit of npm install the rejection has left
\* TargetWorkspace.install and #install: the run has ended at the install
\* step, without Done.
C15_InstallFailurePropagates ==
    installExit = {1} =>
        /\ pc = "failed"
        /\ failure = "install"
        /\ "done" \notin Ran(steps)

\* npm install exited non-zero after npm pack had exited 0
C15_Witness ==
    /\ installExit = {1}
    /\ packExit = {0}
    /\ emitted # {}

\* C16: in the earlier build, the npm install that TargetPackage.install
\* spawns is given the archive paths of exactly the available packages whose
\* name is a key of the target's dependencies, in the order of
\* availablePackages; it spawns nothing, and fails nothing, when the field is
\* missing or no available package is declared.
C16_InstallsDeclaredInOrder ==
    LET available == AvailablePackages(origin)
        dependencies == before.target[1].dependencies
        selected == {i \in 1..Len(available) : available[i].name \in Keys(dependencies)}
        Increasing(f) == \A k \in DOMAIN f : \A l \in DOMAIN f : k < l => f[k] < f[l]
    IN "install" \in Ran(steps) =>
          IF selected = {}
          THEN spawned = <<>> /\ pc \in {"cleanUp", "done"} /\ failure = "none"
          ELSE /\ Len(spawned) = 1
               /\ spawned[1].cmd = "install"
               /\ LET paths == spawned[1].paths
                  IN /\ Len(paths) = Cardinality(selected)
                     /\ \E f \in [1..Len(paths) -> selected] :
                            /\ Increasing(f)
                            /\ \A k \in 1..Len(paths) :
                                   paths[k] = getPackDir(available[f[k]].packName)

\* available is [A, B], the target declares B only, and the install was
\* spawned
C16_Witness ==
    /\ pc = "installing"
    /\ Len(origin) = 2
    /\ Keys(before.target[1].dependencies) = {origin[2].packageJson.name}

StepOrder ==
    <<"originLoad", "updateDependencies", "pack", "restoreDependencies",
      "targetLoad", "install", "cleanUp", "done">>

Rank(step) == CHOOSE i \in 1..Len(StepOrder) : StepOrder[i] = step

\* C17: the steps of #install that have begun are in the order origin load,
\* substitution, pack, restore, target load, install, cleanup, Done: none
\* twice, none after a later one.
C17_StepsInOrder ==
    \A i \in 1..Len(steps) : \A j \in 1..Len(steps) :
        (i < j /\ steps[i] \in Ran(StepOrder) /\ steps[j] \in Ran(StepOrder))
        => Rank(steps[i]) < Rank(steps[j])

\* a preset run went through prepack and the eight steps
C17_Witness == steps = <<"prepack">> \o StepOrder

\* the save() calls that the step taken adds
NewSaves == {saves'[i] : i \in (Len(saves) + 1)..Len(saves')}

PackSpawned == \E i \in 1..Len(spawned) : spawned[i].cmd = "pack"

\* C18: no step leaves two external processes alive; a step that writes a
\* manifest is taken with no npm pack alive before or after it; a
\* substitution write is made before npm pack is spawned, and a restore
\* write only after an npm pack that was spawned has exited.
C18_OneProcessNoWriteWhilePacking ==
    [][/\ Cardinality(tool) <= 1
       /\ Cardinality(tool') <= 1
       /\ (saves' # saves \/ originDisk' # originDisk \/ targetDisk' # targetDisk) =>
              /\ "pack" \notin tool
              /\ "pack" \notin tool'
       /\ \A w \in NewSaves :
              /\ w.step = "updateDependencies" => ~PackSpawned /\ ~PackSpawned'
              /\ w.step = "restoreDependencies" => (PackSpawned => packExit # {})
       /\ (pc = "restoreDependencies" /\ PackSpawned) => packExit # {}
       /\ (pc = "pack") => ~(\E i \in 1..Len(steps) : steps[i] = "restoreDependencies")
      ]_vars

\* npm pack is alive after a substitution was written
C18_Witness ==
    /\ tool = {"pack"}
    /\ pc = "packing"
    /\ OriginSubstituted

\* each entry of r2 has, field by field, the presence and the keys it has in r
KeysKept(r, r2) ==
    /\ Len(r2) = Len(r)
    /\ \A i \in 1..Len(r) : \A d \in DepTypes :
           /\ r2[i].packageJson[d].present = r[i].packageJson[d].present
           /\ DOMAIN r2[i].packageJson[d].map = DOMAIN r[i].packageJson[d].map

\* C19: updateToLocalPacks, on the origin and on the target, leaves every
\* dependency field with the keys it had, and a missing field missing.
C19_SubstitutionKeepsKeys ==
    [][/\ pc = "updateDependencies" => KeysKept(origin, origin')
       /\ pc = "install" => KeysKept(target, target')]_vars

\* a substitution was written for a manifest that has a missing field
C19_Witness ==
    /\ pc = "pack"
    /\ OriginSubstituted
    /\ \E d \in DepTypes : ~origin[1].packageJson[d].present

\* C20: restore() leaves a field whose snapshot is empty as it was just
\* before, and neither saves nor rewrites a manifest whose three snapshots are
\* empty.
C20_EmptySnapshotUntouched ==
    [][pc = "restoreDependencies" =>
          \A i \in 1..Len(origin) :
              /\ \A d \in DepTypes :
                     DOMAIN Old(origin[i], d) = {} =>
                         origin'[i].packageJson[d] = origin[i].packageJson[d]
              /\ ~RestoreChanged(origin[i]) =>
                     /\ \A w \in NewSaves : w.file # origin[i].file
                     /\ originDisk'[origin[i].file] = originDisk[origin[i].file]
      ]_vars

\* restore() has returned with one entry restored and saved, and another,
\* which has a missing field, with its three snapshots empty
C20_Witness ==
    /\ pc = "targetLoad"
    /\ \E i \in 1..Len(saves) : saves[i].step = "restoreDependencies"
    /\ \E j \in 1..Len(origin) :
           /\ ~RestoreChanged(origin[j])
           /\ ~origin[j].packageJson.dependencies.present

\* a key of the manifest as it was before the run names a package of the
\* origin workspace
Matches(manifest) ==
    \E d \in DepTypes : \E k \in Keys(manifest[d]) :
        \E j \in 1..Len(origin) : origin[j].packageJson.name = k

\* C21: every save() that updateToLocalPacks made, on the origin or on the
\* target, is of a manifest with a key that names an available package; a
\* manifest without such a key is on disk as it was.
C21_SavesOnlyChanged ==
    /\ \A i \in 1..Len(saves) :
           /\ saves[i].step = "updateDependencies" =>
                  Matches(before.origin[saves[i].file])
           /\ saves[i].step = "install" => Matches(before.target[saves[i].file])
    /\ pc \in {"pack", "packing"} =>
           \A f \in 1..Len(originDisk) :
               ~Matches(before.origin[f]) => originDisk[f] = before.origin[f]
    /\ pc \in {"installAllPacks", "installing", "cleanUp", "done"} =>
           \A f \in 1..Len(targetDisk) :
               ~Matches(before.target[f]) => targetDisk[f] = before.target[f]

\* updateToLocalPacks returned without a save() for a first entry that has
\* a key, which names no member of the workspace
C21_Witness ==
    /\ pc = "pack"
    /\ saves = <<>>
    /\ Len(origin) >= 1
    /\ KeyCount(origin[1].packageJson) > 0

\* C24: in a preset run the prepack command is spawned, as the first step,
\* exactly when the preset has a prepack command and --noPrepack is not
\* given; after its non-zero exit the run has ended with no manifest loaded
\* or written and nothing else spawned.
C24_PrepackIffConfigured ==
    /\ (args.command = "preset" /\ pc # "run") =>
           /\ ("prepack" \in Ran(steps)) <=> (presetCmd = "script" /\ ~args.noPrepack)
           /\ "prepack" \in Ran(steps) =>
                  /\ steps[1] = "prepack"
                  /\ spawned[1].cmd = "prepack"
                  /\ Count(steps, "prepack") = 1
    /\ failure = "prepack" =>
           /\ pc = "failed"
           /\ steps = <<"prepack">>
           /\ origin = <<>>
           /\ target = <<>>
           /\ saves = <<>>
           /\ originDisk = before.origin
           /\ targetDisk = before.target
           /\ Len(spawned) = 1

\* the prepack command of a preset exited non-zero
C24_Witness ==
    /\ failure = "prepack"
    /\ args.command = "preset"
    /\ tool = {}

\* C25 as stated: every archive path given to npm install names an archive
\* that npm pack wrote in this run.
C25_InstallsOwnArchivesOnly ==
    \A i \in InstallSpawns :
        spawned[i].paths \subseteq {getPackDir(f) : f \in emitted}

\* C26: npm install is spawned at most once, and not at all when the
\* archive directory is missing or holds no .tgz, raw or not; the install step
\* then ends without error and the run goes on to cleanup and Done.
C26_NoArchiveNoInstall ==
    /\ Cardinality(InstallSpawns) <= 1
    /\ pc = "installing" => (packDir.exists /\ TgzPaths(packDir.files) # {})
    /\ pc = "cleanUp" =>
           /\ (~packDir.exists \/ TgzPaths(packDir.files) = {}) <=> InstallSpawns = {}
           /\ failure = "none"
    /\ (pc = "done" /\ InstallSpawns = {}) =>
           /\ failure = "none"
           /\ SubSeq(steps, Len(steps) - 2, Len(steps)) = <<"install", "cleanUp", "done">>

\* a raw install returned early from a directory that holds a file that is
\* no archive
C26_Witness ==
    /\ pc = "cleanUp"
    /\ args.rawInstall
    /\ InstallSpawns = {}
    /\ packDir.files = {Notes}

\* targetPackage.load() has completed
TargetLoaded ==
    \/ pc \in {"install", "installAllPacks", "installing", "cleanUp", "done"}
    \/ pc = "failed" /\ failure = "install"

\* C27: no entry of the origin registry is the origin's root manifest, whose
\* file no step writes or changes, and no available package is the origin's
\* root package; the target registry, once loaded, holds the target's root.
C27_OriginRootNeverAnEntry ==
    /\ \A i \in 1..Len(origin) :
           /\ origin[i].file \in 1..Len(originDisk)
           /\ origin[i].key # originRoot.name
    /\ LET available == AvailablePackages(origin)
       IN \A i \in 1..Len(available) : available[i].name # originRoot.name
    /\ originRoot = before.root
    /\ \A i \in 1..Len(saves) : saves[i].ws = "origin" => saves[i].file # 0
    /\ TargetLoaded =>
           \E i \in 1..Len(target) :
               /\ target[i].file = Len(targetDisk)
               /\ target[i].key = before.target[Len(before.target)].name

\* a run is Done that substituted, in a member, a package that the origin's
\* root declares too
C27_Witness ==
    /\ pc = "done"
    /\ OriginSubstituted
    /\ \E i \in 1..Len(origin) :
           origin[i].packageJson.name \in Keys(originRoot.dependencies)
    /\ Len(target) >= 1

\* C22: whatever calls of updateToLocalPacks, restore and pack follow
\* load(), the registry has the entries load() made, each with the key,
\* file, packName and three snapshots it had then; of a manifest only the
\* dependency fields differ.
C22_RegistryFixedAfterLoad ==
    /\ Len(origin) = Len(before.origin)
    /\ \A i \in 1..Len(origin) :
           LET was == before.origin[i]
           IN /\ origin[i].key = was.name
              /\ origin[i].file = i
              /\ origin[i].packName = getPackName(was)
              /\ \A d \in DepTypes : Old(origin[i], d) = OrEmpty(was[d])
              /\ origin[i].packageJson.name = was.name
              /\ origin[i].packageJson.version = was.version

\* updateToLocalPacks was called right after a restore that had made a
\* field of the first and of the second entry the snapshot object, and
\* replaced a value in the first
C22_Witness ==
    /\ steps = <<"restore", "updateToLocalPacks">>
    /\ Len(origin) = 2
    /\ origin[2].shared # {}
    /\ Keys(before.origin[1].dependencies) # {}
    /\ origin[1].packageJson.dependencies # before.origin[1].dependencies

\* C23: a call of updateToLocalPacks that follows another one at once
\* leaves the content of every manifest, in memory and on disk, as the
\* first one made or wrote it.
C23_SecondUpdateChangesNothing ==
    [][(pc = "updateToLocalPacks" /\ pc' = "updateToLocalPacks") =>
          /\ \A i \in 1..Len(origin) :
                 origin'[i].packageJson = origin[i].packageJson
          /\ \A f \in 1..Len(originDisk) :
                 \/ originDisk'[f] = originDisk[f]
                 \/ \E i \in 1..Len(origin) :
                        origin[i].file = f /\ originDisk'[f] = origin[i].packageJson
      ]_vars

\* updateToLocalPacks was called twice in a row on a manifest in which it
\* replaces a value
C23_Witness ==
    /\ steps = <<"updateToLocalPacks", "updateToLocalPacks">>
    /\ failure = "none"
    /\ Len(origin) >= 1
    /\ origin[1].packageJson # before.origin[1]

====
